---- MODULE Spec2Model ----
(***************************************************************************)
(* Restaurant-directory API over a Redis store: the key helpers and the    *)
(* route handlers of the restaurants router, each handler split at its     *)
(* await points.  The commands of one Promise.all are issued in one        *)
(* synchronous run of the handler on the shared client, so the store       *)
(* executes them as one step; between two awaits of a request the batches  *)
(* of other requests may run.  The client answers commands in the order    *)
(* they were sent, so of the requests of a route that wait for the reply   *)
(* to the same command the one that sent first resumes first; requests     *)
(* waiting at different awaits, or on the weather API, resume in any       *)
(* order.                                                                  *)
(*                                                                         *)
(* Strings that the code takes apart or concatenates (keys, the bloom      *)
(* string, coordinates) are sequences of one-character strings.  Star      *)
(* ratings are whole stars; averages and ranking scores are kept in tenths *)
(* (the value of toFixed(1) times ten).                                    *)
(***************************************************************************)
EXTENDS Integers, Sequences, FiniteSets, TLC

\* ------------------------------------------------------------------ bounds
MaxIdLen == 2
MaxRestaurants == 2
MaxReviews == 2
MaxViews == 2
MaxWeatherRequests == 2
MaxReadsInFlight == 1

\* ------------------------------------------------------------ key helpers
KeyAlphabet == {"a", "s", ":", "_"}

RECURSIVE StringsUpTo(_)
StringsUpTo(n) ==
  IF n = 0 THEN {<< >>}
  ELSE LET shorter == StringsUpTo(n - 1)
       IN  shorter \cup {Append(s, c) : s \in shorter, c \in KeyAlphabet}

IdStrings == StringsUpTo(MaxIdLen)

RECURSIVE Join(_, _)
Join(parts, sep) ==
  IF Len(parts) = 0 THEN << >>
  ELSE IF Len(parts) = 1 THEN parts[1]
  ELSE parts[1] \o sep \o Join(Tail(parts), sep)

getKeyNameNoSeparator(arg) == <<"b","i","t","e","s",":">> \o Join(arg, << >>)

getKeyName(arg) == <<"b","i","t","e","s",":">> \o Join(arg, <<":">>)

restaurantKeyById(id) == getKeyName(<< <<"r","e","s","t","a","u","r","a","n","t">>, id >>)
reviewKeyById(id) == getKeyName(<< <<"r","e","v","i","e","w","s">>, id >>)
reviewDetailsKeyById(id) ==
  getKeyName(<< <<"r","e","v","i","e","w","_","d","e","t","a","i","l","s">>, id >>)
cuisinesKey == getKeyName(<< <<"c","u","i","s","i","n","e">> >>)
cuisineKey(name) == getKeyName(<< <<"c","u","i","s","i","n","e">>, name >>)
restaurantCuisineKeyById(id) ==
  getKeyName(<< <<"r","e","s","t","a","u","r","a","n","t","_","c","u","i","s","i","n","e","s">>, id >>)
restaurantByRatingKey ==
  getKeyName(<< <<"r","e","s","t","a","u","r","a","n","t","_","b","y","_","r","a","t","i","n","g">> >>)
weatherKeyById(id) == getKeyName(<< <<"w","e","a","t","h","e","r">>, id >>)
restaurantDetailsById(id) ==
  getKeyName(<< <<"r","e","s","t","a","u","r","a","n","t","_","d","e","t","a","i","l","s">>, id >>)
indexKey == getKeyName(<< <<"i","d","x">>, <<"r","e","s","t","a","u","r","a","n","t","s">> >>)
bloomKey ==
  getKeyName(<< <<"b","l","o","o","m","_","r","e","s","t","a","u","r","a","n","t","s">> >>)

Helpers == {"restaurantKeyById", "reviewKeyById", "reviewDetailsKeyById", "cuisineKey",
            "restaurantCuisineKeyById", "weatherKeyById", "restaurantDetailsById"}

KeyOf(h, id) ==
  CASE h = "restaurantKeyById" -> restaurantKeyById(id)
    [] h = "reviewKeyById" -> reviewKeyById(id)
    [] h = "reviewDetailsKeyById" -> reviewDetailsKeyById(id)
    [] h = "cuisineKey" -> cuisineKey(id)
    [] h = "restaurantCuisineKeyById" -> restaurantCuisineKeyById(id)
    [] h = "weatherKeyById" -> weatherKeyById(id)
    [] h = "restaurantDetailsById" -> restaurantDetailsById(id)

FixedKeys ==
  [cuisinesKey |-> cuisinesKey, restaurantByRatingKey |-> restaurantByRatingKey,
   indexKey |-> indexKey, bloomKey |-> bloomKey]


\* ------------------------------------------------------------ store values
\* A key that does not exist reads as the empty hash, list, set or sorted set.
NoKey == << >>
Nil == <<"nil">>

Exists(h) == DOMAIN h # {}

\* HSET key field value [field value ...]
HSet(h, new) ==
  [f \in DOMAIN h \cup DOMAIN new |-> IF f \in DOMAIN new THEN new[f] ELSE h[f]]

HGet(h, f) == IF f \in DOMAIN h THEN h[f] ELSE Nil

HIncrByLosesCount(h, f, n) == HSet(h, [x \in {f} |-> n])

\* HINCRBY / HINCRBYFLOAT key field n: a missing field counts as 0.
HIncrBy(h, f, n) == HSet(h, [x \in {f} |-> (IF f \in DOMAIN h THEN h[f] ELSE 0) + n])

LPush(list, v) == <<v>> \o list

RECURSIVE LRemAll(_, _)
\* LREM key 0 v: every occurrence of v is removed.
LRemAll(list, v) ==
  IF list = << >> THEN << >>
  ELSE IF Head(list) = v THEN LRemAll(Tail(list), v)
  ELSE <<Head(list)>> \o LRemAll(Tail(list), v)

Min(a, b) == IF a <= b THEN a ELSE b

\* Elements start..stop of a 0-based sequence, both ends included (LRANGE, ZRANGE).
Slice(seq, start, stop) ==
  IF start >= Len(seq) \/ start > stop THEN << >>
  ELSE SubSeq(seq, start + 1, Min(stop, Len(seq) - 1) + 1)

LRange(list, start, stop) == Slice(list, start, stop)

ZAddForgotten(z, member, score) == z

\* ZADD key score member
ZAdd(z, member, score) ==
  [m \in DOMAIN z \cup {member} |-> IF m = member THEN score ELSE z[m]]

\* Whether a ranks above b from the top: higher score first, equal scores by
\* member, larger first.
Above(z, a, b) == z[a] > z[b] \/ (z[a] = z[b] /\ a > b)

RECURSIVE RankedFrom(_, _)
RankedFrom(z, members) ==
  IF members = {} THEN << >>
  ELSE LET top == CHOOSE a \in members : \A b \in members \ {a} : Above(z, a, b)
       IN  <<top>> \o RankedFrom(z, members \ {top})

\* ZRANGE key start stop REV
ZRangeRev(z, start, stop) == Slice(RankedFrom(z, DOMAIN z), start, stop)

\* BF.EXISTS: the replies the filter can give.  An added item is always
\* reported; an item never added may be reported once the filter holds
\* something (a false positive); an absent filter reports nothing.
BfExists(filter, item) ==
  IF item \in filter THEN {TRUE}
  ELSE IF filter = {} THEN {FALSE}
  ELSE {TRUE, FALSE}

ToFixed0(totalStars, reviewCount) ==
  10 * ((2 * totalStars + reviewCount) \div (2 * reviewCount))

\* (totalStars / reviewCount).toFixed(1), in tenths: the nearest tenth, a tie
\* going up.  Exact for whole-star totals while reviewCount < 20.
ToFixed1(totalStars, reviewCount) == (20 * totalStars + reviewCount) \div (2 * reviewCount)

\* ------------------------------------------------------------------ inputs
RestaurantIds == 1..MaxRestaurants
ReviewIds == 1..MaxReviews

Cuisines == {"thai", "pho"}

\* Bodies that pass validate(RestaurantSchema): with and without cuisines,
\* and two whose name and location differ but join to the same bloom string.
RestaurantBodies ==
  {[name |-> <<"a">>, location |-> <<"c">>, cuisines |-> {}],
   [name |-> <<"a">>, location |-> <<"c">>, cuisines |-> {"thai"}],
   [name |-> <<"a", ":", "b">>, location |-> <<"c">>, cuisines |-> {"thai", "pho"}],
   [name |-> <<"a">>, location |-> <<"b", ":", "c">>, cuisines |-> {"pho"}]}

\* Two restaurants for the review, listing and view routes.
FewBodies ==
  {[name |-> <<"a">>, location |-> <<"1", ",", "2">>, cuisines |-> {"thai"}],
   [name |-> <<"b">>, location |-> <<"3", ",", "4">>, cuisines |-> {"thai", "pho"}]}

\* Ratings that pass validate(ReviewSchema).
Ratings == {1, 2, 5}

VARIABLES
  keyArgs, keysOut,      \* the ids last put through the key helpers, and their keys
  hashes,                \* bites:restaurant:<id>, a hash per restaurant id
  reviews,               \* bites:reviews:<id>, a list of review ids per restaurant id
  reviewDetails,         \* bites:review_details:<id>, a hash per review id
  cuisines,              \* bites:cuisine, a set
  cuisineMembers,        \* bites:cuisine:<name>, a set of restaurant ids per cuisine
  restaurantCuisines,    \* bites:restaurant_cuisines:<id>, a set of cuisines
  byRating,              \* bites:restaurant_by_rating, a sorted set
  bloom,                 \* bites:bloom_restaurants, the items added
  idsIssued,             \* the restaurant ids nanoid() has returned
  reviewIdsIssued,       \* review ids nanoid() has returned; no command orders
                         \* review ids, so they are numbered as they are issued
  createReqs,            \* POST / requests between bf.exists and the batch
  reviewReqs,            \* POST /:restaurantId/reviews requests in progress
  reviewsOverlapped,     \* per restaurant: a review request has run its first
                         \* batch while another for the restaurant was in progress
  response,              \* the response sent last
  weather,               \* bites:weather:<id>, a string per restaurant id, or Nil
  weatherReqs,           \* GET /:restaurantId/weather requests in progress
  weatherIssued,         \* weather requests that have reached the handler
  apiCalls,              \* calls made to the weather API
  lastApi,               \* the last reply of the weather API
  viewReqs,              \* GET /:restaurantId requests in progress
  viewStarted,           \* GET /:restaurantId requests arrived, per restaurant
  viewCompleted,         \* GET /:restaurantId requests answered, per restaurant
  viewsOverlapped,       \* per restaurant: a GET /:restaurantId request has
                         \* arrived while another for the restaurant was in progress
  cuisineReads,          \* GET /cuisines/:cuisine requests between sMembers and hGet
  reviewReads,           \* GET /:restaurantId/reviews requests between lRange and hGetAll
  restaurantReads        \* GET / requests between zRange and hGetAll

keyVars == <<keyArgs, keysOut>>
storeVars == <<hashes, reviews, reviewDetails, cuisines, cuisineMembers,
               restaurantCuisines, byRating, bloom>>
weatherVars == <<weather, weatherReqs, weatherIssued, apiCalls, lastApi>>
viewVars == <<viewReqs, viewStarted, viewCompleted, viewsOverlapped>>
readVars == <<cuisineReads, reviewReads, restaurantReads>>
reviewVars == <<reviewReqs, reviewsOverlapped>>
vars == <<keyArgs, keysOut, hashes, reviews, reviewDetails, cuisines, cuisineMembers,
          restaurantCuisines, byRating, bloom, idsIssued, reviewIdsIssued,
          createReqs, reviewReqs, reviewsOverlapped, response, weather, weatherReqs,
          weatherIssued,
          apiCalls, lastApi, viewReqs, viewStarted, viewCompleted, viewsOverlapped,
          cuisineReads, reviewReads, restaurantReads>>

\* Replies come back in the order the commands were sent: of the requests
\* waiting for the same reply, the one that sent first resumes first.  A
\* request carries in n its place in the order of sending.
Oldest(req, waiting) == \A other \in waiting : req.n <= other.n

KeysInit ==
  /\ keyArgs = << << >>, << >> >>
  /\ keysOut = [h \in Helpers |-> <<KeyOf(h, << >>), KeyOf(h, << >>)>>]

\* The server has started on an empty store.
Init ==
  /\ KeysInit
  /\ hashes = [r \in RestaurantIds |-> NoKey]
  /\ reviews = [r \in RestaurantIds |-> << >>]
  /\ reviewDetails = [v \in ReviewIds |-> NoKey]
  /\ cuisines = {}
  /\ cuisineMembers = [c \in Cuisines |-> {}]
  /\ restaurantCuisines = [r \in RestaurantIds |-> {}]
  /\ byRating = NoKey
  /\ bloom = {}
  /\ idsIssued = {}
  /\ reviewIdsIssued = 0
  /\ createReqs = {}
  /\ reviewReqs = {}
  /\ reviewsOverlapped = [r \in RestaurantIds |-> FALSE]
  /\ response = [route |-> "none"]
  /\ weather = [r \in RestaurantIds |-> Nil]
  /\ weatherReqs = {}
  /\ weatherIssued = 0
  /\ apiCalls = 0
  /\ lastApi = [status |-> 0]
  /\ viewReqs = {}
  /\ viewStarted = [r \in RestaurantIds |-> 0]
  /\ viewCompleted = [r \in RestaurantIds |-> 0]
  /\ viewsOverlapped = [r \in RestaurantIds |-> FALSE]
  /\ cuisineReads = {}
  /\ reviewReads = {}
  /\ restaurantReads = {}

\* One id is put through every key helper.
ComputeKeys ==
  /\ \E i \in 1..2, a \in IdStrings :
       /\ keyArgs' = [keyArgs EXCEPT ![i] = a]
       /\ keysOut' = [h \in Helpers |-> [keysOut[h] EXCEPT ![i] = KeyOf(h, a)]]
  /\ UNCHANGED <<readVars, weatherVars, viewVars, storeVars, idsIssued, reviewIdsIssued, createReqs,
                 reviewVars, response>>

\* --------------------------------------------------------- POST / (create)
\* `${data.name}:${data.location}`
BloomString(data) == data.name \o <<":">> \o data.location

SAddCuisinesForgotten(set, added) == set

\* sAdd(cuisinesKey, cuisine) for each cuisine of the body.
SAddCuisines(set, added) == set \cup added

\* The handler up to its first await: nanoid(), then bf.exists.  nanoid()
\* returns any id it has not returned before.  A reported item is answered
\* 409; otherwise the request goes on to its batch.
CreateExists(bodies) ==
  /\ \E id \in RestaurantIds \ idsIssued :
     \E data \in bodies : \E seenBefore \in BfExists(bloom, BloomString(data)) :
       LET req == [n |-> Cardinality(idsIssued) + 1, id |-> id, data |-> data,
                   added |-> BloomString(data) \in bloom]
       IN  /\ idsIssued' = idsIssued \cup {id}
           /\ IF seenBefore
              THEN /\ response' = [route |-> "create", status |-> 409, req |-> req,
                                   body |-> "Restaurant already exists"]
                   /\ UNCHANGED createReqs
              ELSE /\ createReqs' = createReqs \cup {req}
                   /\ UNCHANGED response
  /\ UNCHANGED <<readVars, weatherVars, viewVars, keyVars, storeVars, reviewIdsIssued, reviewVars>>

\* The Promise.all of the handler: the three sAdd per cuisine, hSet, zAdd
\* with score 0, bf.add; then the 200 response.  The request whose bf.exists
\* was answered first goes first.
CreateBatch ==
  /\ \E req \in createReqs :
       LET id == req.id
           hashData == [id |-> id, name |-> req.data.name, location |-> req.data.location]
       IN  /\ Oldest(req, createReqs)
           /\ cuisines' = SAddCuisines(cuisines, req.data.cuisines)
           /\ cuisineMembers' =
                [c \in Cuisines |-> IF c \in req.data.cuisines
                                    THEN cuisineMembers[c] \cup {id}
                                    ELSE cuisineMembers[c]]
           /\ restaurantCuisines' =
                [restaurantCuisines EXCEPT ![id] = @ \cup req.data.cuisines]
           /\ hashes' = [hashes EXCEPT ![id] = HSet(@, hashData)]
           /\ byRating' = ZAdd(byRating, id, 0)
           /\ bloom' = bloom \cup {BloomString(req.data)}
           /\ createReqs' = createReqs \ {req}
           /\ response' = [route |-> "create", status |-> 200, req |-> req,
                           body |-> hashData]
  /\ UNCHANGED <<readVars, weatherVars, viewVars, keyVars, reviews, reviewDetails, idsIssued, reviewIdsIssued, reviewVars>>

\* ------------------------------------------------------------ cuisines.ts
\* GET /cuisines: sMembers(cuisinesKey).
GetCuisines ==
  /\ response' = [route |-> "cuisines", status |-> 200, body |-> cuisines]
  /\ UNCHANGED <<readVars, weatherVars, viewVars, keyVars, storeVars, idsIssued, reviewIdsIssued, createReqs, reviewVars>>

\* The requests between the two awaits of a read route, at most
\* MaxReadsInFlight at a time.  They are numbered 1, 2, .. in the order of
\* their first command; when one is answered the later ones move up.
ReadsInFlight ==
  Cardinality(cuisineReads) + Cardinality(reviewReads) + Cardinality(restaurantReads)
MovedUp(reqs, n) == {[req EXCEPT !.n = IF @ > n THEN @ - 1 ELSE @] : req \in reqs}

\* GET /cuisines/:cuisine up to its first await: sMembers(cuisineKey(cuisine)).
GetCuisineMembers ==
  /\ ReadsInFlight < MaxReadsInFlight
  /\ \E cuisine \in Cuisines :
       cuisineReads' = cuisineReads \cup
         {[n |-> ReadsInFlight + 1, cuisine |-> cuisine, resturantIds |-> cuisineMembers[cuisine]]}
  /\ UNCHANGED <<reviewReads, restaurantReads, response>>
  /\ UNCHANGED <<weatherVars, viewVars, keyVars, storeVars, idsIssued, reviewIdsIssued,
                 createReqs, reviewVars>>

\* The Promise.all of hGet(.., "name") over the ids read, then the response;
\* the body gives the name read for each id.  The request whose sMembers was
\* answered first goes first.
GetCuisineNames ==
  /\ \E req \in cuisineReads :
       /\ Oldest(req, cuisineReads)
       /\ cuisineReads' = MovedUp(cuisineReads \ {req}, req.n)
       /\ reviewReads' = MovedUp(reviewReads, req.n)
       /\ restaurantReads' = MovedUp(restaurantReads, req.n)
       /\ response' = [route |-> "cuisine", status |-> 200, cuisine |-> req.cuisine,
                       body |-> [id \in req.resturantIds |-> HGet(hashes[id], "name")]]
  /\ UNCHANGED <<weatherVars, viewVars, keyVars, storeVars, idsIssued, reviewIdsIssued,
                 createReqs, reviewVars>>

\* ------------------------------------------------ checkRestaurantExists
\* The middleware in front of every /:restaurantId route.  A restaurant hash
\* is never deleted, so the check is taken together with the first batch of
\* the handler it guards.
CheckRestaurantExists(restaurantId) == Exists(hashes[restaurantId])

RestaurantNotFound ==
  /\ \E restaurantId \in RestaurantIds :
       /\ ~CheckRestaurantExists(restaurantId)
       /\ response' = [route |-> "checkRestaurantExists", status |-> 404,
                       restaurantId |-> restaurantId, body |-> "Restaurant Not Found"]
  /\ UNCHANGED <<readVars, weatherVars, viewVars, keyVars, storeVars, idsIssued, reviewIdsIssued, createReqs, reviewVars>>

\* ------------------------------------------- POST /:restaurantId/reviews
\* nanoid(), then the first Promise.all: lPush, hSet of the review details,
\* hIncrByFloat of totalStars.  The replies stay with the request.  Of
\* reviewData the id, the rating and the restaurantId are kept; the other
\* fields of the body and the timestamp are stored and never read again.
ReviewBatch1 ==
  /\ reviewIdsIssued < MaxReviews
  /\ \E restaurantId \in RestaurantIds, rating \in Ratings :
       LET reviewId == reviewIdsIssued + 1
           reviewData == [id |-> reviewId, rating |-> rating, restaurantId |-> restaurantId]
           list == LPush(reviews[restaurantId], reviewId)
           hash == HIncrBy(hashes[restaurantId], "totalStars", rating)
       IN  /\ CheckRestaurantExists(restaurantId)
           /\ reviewIdsIssued' = reviewId
           /\ reviews' = [reviews EXCEPT ![restaurantId] = list]
           /\ reviewDetails' = [reviewDetails EXCEPT ![reviewId] = HSet(@, reviewData)]
           /\ hashes' = [hashes EXCEPT ![restaurantId] = hash]
           /\ reviewReqs' = reviewReqs \cup
                {[n |-> reviewIdsIssued + 1, reviewData |-> reviewData,
                  reviewCount |-> Len(list), totalStars |-> hash["totalStars"]]}
           /\ reviewsOverlapped' =
                [reviewsOverlapped EXCEPT ![restaurantId] =
                   @ \/ \E other \in reviewReqs :
                          other.reviewData.restaurantId = restaurantId]
  /\ UNCHANGED <<readVars, weatherVars, viewVars, keyVars, cuisines, cuisineMembers, restaurantCuisines, byRating, bloom,
                 idsIssued, createReqs, response>>

\* averageRating, then the second Promise.all: zAdd and hSet of avgStars;
\* then the 200 response.  The request whose first batch was answered first
\* goes first.
ReviewBatch2 ==
  /\ \E req \in reviewReqs :
       LET restaurantId == req.reviewData.restaurantId
           averageRating == ToFixed1(req.totalStars, req.reviewCount)
       IN  /\ Oldest(req, reviewReqs)
           /\ byRating' = ZAdd(byRating, restaurantId, averageRating)
           /\ hashes' = [hashes EXCEPT ![restaurantId] =
                           HSet(@, [avgStars |-> averageRating])]
           /\ reviewReqs' = reviewReqs \ {req}
           /\ response' = [route |-> "addReview", status |-> 200, body |-> req.reviewData]
  /\ UNCHANGED <<readVars, weatherVars, viewVars, keyVars, reviews, reviewDetails, cuisines, cuisineMembers,
                 restaurantCuisines, bloom, idsIssued, reviewIdsIssued, createReqs,
                 reviewsOverlapped>>

\* -------------------------------------------- GET /:restaurantId/reviews
Pages == {1, 2}
Limits == {1, 2}

\* checkRestaurantExists, then the handler up to its first await:
\* lRange(reviewKey, start, end) with end = start + limit - 1.
GetReviewsRange ==
  /\ ReadsInFlight < MaxReadsInFlight
  /\ \E restaurantId \in RestaurantIds, page \in Pages, limit \in Limits :
       LET start == (page - 1) * limit
           end == start + limit - 1
           reviewIds == LRange(reviews[restaurantId], start, end)
       IN  /\ CheckRestaurantExists(restaurantId)
           /\ reviewReads' = reviewReads \cup
                {[n |-> ReadsInFlight + 1, restaurantId |-> restaurantId, page |-> page,
                  limit |-> limit, reviewIds |-> reviewIds]}
  /\ UNCHANGED <<cuisineReads, restaurantReads, response>>
  /\ UNCHANGED <<weatherVars, viewVars, keyVars, storeVars, idsIssued, reviewIdsIssued,
                 createReqs, reviewVars>>

\* The Promise.all of hGetAll over the ids read, then the response; a review
\* deleted since reads as the empty hash.  The request whose lRange was
\* answered first goes first.
GetReviewsDetails ==
  /\ \E req \in reviewReads :
       /\ Oldest(req, reviewReads)
       /\ reviewReads' = MovedUp(reviewReads \ {req}, req.n)
       /\ cuisineReads' = MovedUp(cuisineReads, req.n)
       /\ restaurantReads' = MovedUp(restaurantReads, req.n)
       /\ response' = [route |-> "reviews", status |-> 200,
                       restaurantId |-> req.restaurantId, page |-> req.page,
                       limit |-> req.limit,
                       body |-> [i \in 1..Len(req.reviewIds) |->
                                   reviewDetails[req.reviewIds[i]]]]
  /\ UNCHANGED <<weatherVars, viewVars, keyVars, storeVars, idsIssued, reviewIdsIssued,
                 createReqs, reviewVars>>

\* ---------------------------------- DELETE /:restaurantId/reviews/:reviewId
\* The Promise.all of lRem and del; 404 when neither removed anything.
DeleteReview ==
  /\ \E restaurantId \in RestaurantIds, reviewId \in ReviewIds :
       LET list == LRemAll(reviews[restaurantId], reviewId)
           removeResult == Len(reviews[restaurantId]) - Len(list)
           deleteResult == IF Exists(reviewDetails[reviewId]) THEN 1 ELSE 0
       IN  /\ CheckRestaurantExists(restaurantId)
           /\ reviews' = [reviews EXCEPT ![restaurantId] = list]
           /\ reviewDetails' = [reviewDetails EXCEPT ![reviewId] = NoKey]
           /\ response' =
                IF removeResult = 0 /\ deleteResult = 0
                THEN [route |-> "deleteReview", status |-> 404, body |-> "Review not found"]
                ELSE [route |-> "deleteReview", status |-> 200, body |-> reviewId]
  /\ UNCHANGED <<readVars, weatherVars, viewVars, keyVars, hashes, cuisines, cuisineMembers, restaurantCuisines, byRating,
                 bloom, idsIssued, reviewIdsIssued, createReqs, reviewVars>>

\* ------------------------------------------------------------------ GET /
\* The ids GET / reads for a page: zRange(start, end, REV) with
\* end = start + limit.
RestaurantPage(z, page, limit) ==
  LET start == (page - 1) * limit
      end == start + limit
  IN  ZRangeRev(z, start, end)

\* GET / up to its first await: zRange.  The request keeps the ids and, for
\* the record, the ranking they were read from.
GetRestaurantsRange ==
  /\ ReadsInFlight < MaxReadsInFlight
  /\ \E page \in Pages, limit \in Limits :
       restaurantReads' = restaurantReads \cup
         {[n |-> ReadsInFlight + 1, page |-> page, limit |-> limit,
           restaurantIds |-> RestaurantPage(byRating, page, limit), ranking |-> byRating]}
  /\ UNCHANGED <<cuisineReads, reviewReads, response>>
  /\ UNCHANGED <<weatherVars, viewVars, keyVars, storeVars, idsIssued, reviewIdsIssued,
                 createReqs, reviewVars>>

\* The Promise.all of hGetAll over the ids read, then the response.  The
\* request whose zRange was answered first goes first.
GetRestaurantsHashes ==
  /\ \E req \in restaurantReads :
       /\ Oldest(req, restaurantReads)
       /\ restaurantReads' = MovedUp(restaurantReads \ {req}, req.n)
       /\ cuisineReads' = MovedUp(cuisineReads, req.n)
       /\ reviewReads' = MovedUp(reviewReads, req.n)
       /\ response' = [route |-> "restaurants", status |-> 200, page |-> req.page,
                       limit |-> req.limit, ids |-> req.restaurantIds,
                       ranking |-> req.ranking,
                       body |-> [i \in 1..Len(req.restaurantIds) |->
                                   hashes[req.restaurantIds[i]]]]
  /\ UNCHANGED <<weatherVars, viewVars, keyVars, storeVars, idsIssued, reviewIdsIssued,
                 createReqs, reviewVars>>

\* ------------------------------------------- GET /:restaurantId/weather
\* JSON.stringify of a parsed JSON value, and JSON.parse of such a string.
JsonStringify(json) == <<"json", json>>
JsonParse(text) == text[2]

RECURSIVE Split(_, _)
\* coords.split(","): the parts between the separators.
Split(str, sep) ==
  IF \A i \in 1..Len(str) : str[i] # sep THEN <<str>>
  ELSE LET i == CHOOSE k \in 1..Len(str) :
                  str[k] = sep /\ \A m \in 1..(k - 1) : str[m] # sep
       IN  <<SubSeq(str, 1, i - 1)>> \o Split(SubSeq(str, i + 1, Len(str)), sep)

\* const [lng, lat] = coords.split(","): a missing part is undefined.
Part(parts, i) == IF i <= Len(parts) THEN parts[i] ELSE "undefined"

\* What the weather API may answer to a call with these coordinates: a
\* status and, as the body, the observation for the coordinates asked.
ApiStatuses == {200, 500}
Observations == {"sun", "rain"}
ApiReplies(lat, lng) ==
  [status : ApiStatuses, json : [lat : {lat}, lon : {lng}, weather : Observations]]

StatusIgnored(status) == TRUE

\* apiResponse.status === 200
StatusOk(status) == status = 200

\* checkRestaurantExists, then client.get(weatherKey): a cached entry is
\* answered at once; otherwise the request goes on to read the coordinates.
WeatherGet ==
  /\ weatherIssued < MaxWeatherRequests
  /\ \E restaurantId \in RestaurantIds :
       LET cachedWeather == weather[restaurantId]
       IN  /\ CheckRestaurantExists(restaurantId)
           /\ weatherIssued' = weatherIssued + 1
           /\ IF cachedWeather # Nil
              THEN /\ response' = [route |-> "weather", status |-> 200,
                                   restaurantId |-> restaurantId, cached |-> TRUE,
                                   body |-> JsonParse(cachedWeather)]
                   /\ UNCHANGED weatherReqs
              ELSE /\ weatherReqs' = weatherReqs \cup
                         {[n |-> weatherIssued + 1, restaurantId |-> restaurantId,
                           pc |-> "hGet"]}
                   /\ UNCHANGED response
  /\ UNCHANGED <<weather, apiCalls, lastApi>>
  /\ UNCHANGED <<readVars, viewVars, keyVars, storeVars, idsIssued, reviewIdsIssued, createReqs,
                 reviewVars>>

\* client.hGet(restaurantKey, "location"): 404 without coordinates, otherwise
\* the coordinates are split for the call.  The request whose client.get was
\* answered first goes first.
WeatherCoords ==
  /\ \E req \in weatherReqs :
       LET coords == HGet(hashes[req.restaurantId], "location")
       IN  /\ req.pc = "hGet"
           /\ Oldest(req, {other \in weatherReqs : other.pc = "hGet"})
           /\ IF coords = Nil \/ coords = << >>
              THEN /\ weatherReqs' = weatherReqs \ {req}
                   /\ response' = [route |-> "weather", status |-> 404,
                                   restaurantId |-> req.restaurantId, cached |-> FALSE,
                                   body |-> "Coordinates have not been found"]
              ELSE /\ weatherReqs' = (weatherReqs \ {req}) \cup
                         {[n |-> req.n, restaurantId |-> req.restaurantId, pc |-> "fetch",
                           lng |-> Part(Split(coords, ","), 1),
                           lat |-> Part(Split(coords, ","), 2)]}
                   /\ UNCHANGED response
  /\ UNCHANGED <<weather, weatherIssued, apiCalls, lastApi>>
  /\ UNCHANGED <<readVars, viewVars, keyVars, storeVars, idsIssued, reviewIdsIssued, createReqs,
                 reviewVars>>

\* fetch(...): the API answers.  Any status but 200 is answered 500; with
\* 200 the request goes on to cache the body.
WeatherFetch ==
  /\ \E req \in weatherReqs :
       /\ req.pc = "fetch"
       /\ \E apiResponse \in ApiReplies(req.lat, req.lng) :
            /\ apiCalls' = apiCalls + 1
            /\ lastApi' = [status |-> apiResponse.status,
                           restaurantId |-> req.restaurantId]
            /\ IF StatusOk(apiResponse.status)
               THEN /\ weatherReqs' = (weatherReqs \ {req}) \cup
                          {[n |-> req.n, restaurantId |-> req.restaurantId, pc |-> "set",
                            status |-> apiResponse.status, json |-> apiResponse.json]}
                    /\ UNCHANGED response
               ELSE /\ weatherReqs' = weatherReqs \ {req}
                    /\ response' = [route |-> "weather", status |-> 500,
                                    restaurantId |-> req.restaurantId, cached |-> FALSE,
                                    body |-> "Couldn't fetch weather info"]
  /\ UNCHANGED <<weather, weatherIssued>>
  /\ UNCHANGED <<readVars, viewVars, keyVars, storeVars, idsIssued, reviewIdsIssued, createReqs,
                 reviewVars>>

\* client.set(weatherKey, JSON.stringify(json), {EX: 60 * 60}), then the 200
\* response with the body.
WeatherSet ==
  /\ \E req \in weatherReqs :
       /\ req.pc = "set"
       /\ weather' = [weather EXCEPT ![req.restaurantId] = JsonStringify(req.json)]
       /\ weatherReqs' = weatherReqs \ {req}
       /\ response' = [route |-> "weather", status |-> 200,
                       restaurantId |-> req.restaurantId, cached |-> FALSE,
                       body |-> req.json]
  /\ UNCHANGED <<weatherIssued, apiCalls, lastApi>>
  /\ UNCHANGED <<readVars, viewVars, keyVars, storeVars, idsIssued, reviewIdsIssued, createReqs,
                 reviewVars>>

\* The store drops an entry whose EX time has passed.
WeatherExpire ==
  /\ \E restaurantId \in RestaurantIds :
       /\ weather[restaurantId] # Nil
       /\ weather' = [weather EXCEPT ![restaurantId] = Nil]
  /\ UNCHANGED <<weatherReqs, weatherIssued, apiCalls, lastApi>>
  /\ UNCHANGED <<readVars, viewVars, keyVars, storeVars, idsIssued, reviewIdsIssued, createReqs,
                 reviewVars, response>>

\* --------------------------------------------------- GET /:restaurantId
RECURSIVE Total(_, _)
Total(counts, ids) ==
  IF ids = {} THEN 0
  ELSE LET r == CHOOSE x \in ids : TRUE
       IN  counts[r] + Total(counts, ids \ {r})

\* The request has passed checkRestaurantExists.  Requests are numbered as
\* they arrive.
ViewArrive ==
  /\ Total(viewStarted, RestaurantIds) < MaxViews
  /\ \E restaurantId \in RestaurantIds :
       /\ CheckRestaurantExists(restaurantId)
       /\ viewStarted' = [viewStarted EXCEPT ![restaurantId] = @ + 1]
       /\ viewReqs' = viewReqs \cup
            {[restaurantId |-> restaurantId, n |-> Total(viewStarted, RestaurantIds) + 1,
              pc |-> "batch"]}
       /\ viewsOverlapped' =
            [viewsOverlapped EXCEPT ![restaurantId] =
               @ \/ \E other \in viewReqs : other.restaurantId = restaurantId]
  /\ UNCHANGED viewCompleted
  /\ UNCHANGED <<readVars, weatherVars, keyVars, storeVars, idsIssued, reviewIdsIssued, createReqs,
                 reviewVars, response>>

\* The Promise.all: hIncrBy of viewCount, hGetAll, sMembers.  The request
\* that passed checkRestaurantExists first goes first.
ViewBatch ==
  /\ \E req \in viewReqs :
       LET hash == HIncrBy(hashes[req.restaurantId], "viewCount", 1)
       IN  /\ req.pc = "batch"
           /\ Oldest(req, {other \in viewReqs : other.pc = "batch"})
           /\ hashes' = [hashes EXCEPT ![req.restaurantId] = hash]
           /\ viewReqs' = (viewReqs \ {req}) \cup
                {[restaurantId |-> req.restaurantId, n |-> req.n, pc |-> "respond",
                  viewCount |-> hash["viewCount"], restaurant |-> hash,
                  cuisine |-> restaurantCuisines[req.restaurantId]]}
  /\ UNCHANGED <<viewStarted, viewCompleted, viewsOverlapped>>
  /\ UNCHANGED <<readVars, weatherVars, keyVars, reviews, reviewDetails, cuisines, cuisineMembers,
                 restaurantCuisines, byRating, bloom, idsIssued, reviewIdsIssued,
                 createReqs, reviewVars, response>>

\* successResponse(res, {...restaurant, cuisine}).  The request whose batch
\* was answered first goes first.
ViewRespond ==
  /\ \E req \in viewReqs :
       /\ req.pc = "respond"
       /\ Oldest(req, {other \in viewReqs : other.pc = "respond"})
       /\ viewReqs' = viewReqs \ {req}
       /\ viewCompleted' = [viewCompleted EXCEPT ![req.restaurantId] = @ + 1]
       /\ response' = [route |-> "restaurant", status |-> 200,
                       restaurantId |-> req.restaurantId,
                       body |-> HSet(req.restaurant, [cuisine |-> req.cuisine])]
  /\ UNCHANGED <<viewStarted, viewsOverlapped>>
  /\ UNCHANGED <<readVars, weatherVars, keyVars, storeVars, idsIssued, reviewIdsIssued, createReqs,
                 reviewVars>>

\* ---------------------------------------------------------- specifications
SpecKeys == Init /\ [][ComputeKeys]_vars

\* Restaurant creation under any interleaving, with the cuisine routes.
NextCreate ==
  \/ CreateExists(RestaurantBodies)
  \/ CreateBatch
  \/ GetCuisines
  \/ GetCuisineMembers
  \/ GetCuisineNames

SpecCreate == Init /\ [][NextCreate]_vars

\* Concurrent review submissions, no deletion.
NextReviews ==
  \/ CreateExists(FewBodies)
  \/ CreateBatch
  \/ RestaurantNotFound
  \/ ReviewBatch1
  \/ ReviewBatch2

SpecReviews == Init /\ [][NextReviews]_vars

\* No request is in progress.
Idle ==
  /\ createReqs = {} /\ reviewReqs = {} /\ weatherReqs = {} /\ viewReqs = {}
  /\ cuisineReads = {} /\ reviewReads = {} /\ restaurantReads = {}

\* One request at a time: a request arrives only when none is in progress.
NextSequential ==
  \/ (Idle /\ CreateExists(FewBodies))
  \/ CreateBatch
  \/ (Idle /\ RestaurantNotFound)
  \/ (Idle /\ ReviewBatch1)
  \/ ReviewBatch2
  \/ (Idle /\ DeleteReview)
  \/ (Idle /\ GetReviewsRange)
  \/ GetReviewsDetails
  \/ (Idle /\ GetRestaurantsRange)
  \/ GetRestaurantsHashes

SpecSequential == Init /\ [][NextSequential]_vars

\* The weather route over two restaurants.
NextWeather ==
  \/ CreateExists(FewBodies)
  \/ CreateBatch
  \/ WeatherGet
  \/ WeatherCoords
  \/ WeatherFetch
  \/ WeatherSet
  \/ WeatherExpire

SpecWeather == Init /\ [][NextWeather]_vars

\* Concurrent GET /:restaurantId requests over two restaurants.
NextView ==
  \/ CreateExists(FewBodies)
  \/ CreateBatch
  \/ RestaurantNotFound
  \/ ViewArrive
  \/ ViewBatch
  \/ ViewRespond

SpecView == Init /\ [][NextView]_vars

\* Every route.
Next ==
  \/ ComputeKeys
  \/ CreateExists(RestaurantBodies)
  \/ CreateBatch
  \/ GetCuisines
  \/ GetCuisineMembers
  \/ GetCuisineNames
  \/ RestaurantNotFound
  \/ ReviewBatch1
  \/ ReviewBatch2
  \/ GetReviewsRange
  \/ GetReviewsDetails
  \/ DeleteReview
  \/ GetRestaurantsRange
  \/ GetRestaurantsHashes
  \/ WeatherGet
  \/ WeatherCoords
  \/ WeatherFetch
  \/ WeatherSet
  \/ WeatherExpire
  \/ ViewArrive
  \/ ViewBatch
  \/ ViewRespond

Spec == Init /\ [][Next]_vars

\* ------------------------------------------------------------------ claims
StartsWithBites(k) == Len(k) >= 6 /\ SubSeq(k, 1, 6) = <<"b","i","t","e","s",":">>

\* C3: keys of two different helpers never coincide, no helper key equals a
\* fixed key, the fixed keys are pairwise distinct, every key starts with
\* "bites:", and each helper maps distinct ids to distinct keys.
C3_KeysScoped ==
  /\ \A h1 \in Helpers, h2 \in Helpers, i \in 1..2, j \in 1..2 :
       keysOut[h1][i] = keysOut[h2][j] => (h1 = h2 /\ keyArgs[i] = keyArgs[j])
  /\ \A h \in Helpers, i \in 1..2, f \in DOMAIN FixedKeys : keysOut[h][i] # FixedKeys[f]
  /\ \A f \in DOMAIN FixedKeys, g \in DOMAIN FixedKeys :
       FixedKeys[f] = FixedKeys[g] => f = g
  /\ \A h \in Helpers, i \in 1..2 : StartsWithBites(keysOut[h][i])
  /\ \A f \in DOMAIN FixedKeys : StartsWithBites(FixedKeys[f])

\* Two different ids, one of them holding the separator, have gone through the helpers.
C3_Witness ==
  /\ keyArgs[1] # keyArgs[2]
  /\ keyArgs[1] = <<":", "s">>
  /\ keysOut["reviewKeyById"][1] = <<"b","i","t","e","s",":","r","e","v","i","e","w","s",":",":","s">>

RECURSIVE SumRatings(_)
\* The ratings of the stored details of the reviews of a list, added up.
SumRatings(list) ==
  IF list = << >> THEN 0
  ELSE reviewDetails[Head(list)]["rating"] + SumRatings(Tail(list))

\* Every review of the list has its details stored.
AllDetailed(list) == \A i \in 1..Len(list) : Exists(reviewDetails[list[i]])

\* The mean of the ratings of a non-empty list of reviews, to the nearest
\* tenth, in tenths.
MeanRating(list) == (20 * SumRatings(list) + Len(list)) \div (2 * Len(list))

Reviewed(r) == reviews[r] # << >>

\* C1: whenever no POST /:restaurantId/reviews request is in progress, every
\* restaurant that has received a review has a ranking score equal to the
\* avgStars field of its hash.
C1_RankingMatchesHash ==
  reviewReqs = {} =>
    \A r \in RestaurantIds :
      Reviewed(r) =>
        /\ r \in DOMAIN byRating
        /\ "avgStars" \in DOMAIN hashes[r]
        /\ byRating[r] = hashes[r]["avgStars"]

\* Two requests for one restaurant have overlapped and both have completed;
\* the score is no longer the 0 of the creation.
C1_Witness ==
  /\ reviewReqs = {}
  /\ \E r \in RestaurantIds :
       /\ reviewsOverlapped[r]
       /\ Len(reviews[r]) = 2
       /\ byRating[r] # 0
       /\ byRating[r] = hashes[r]["avgStars"]

\* C2 as claimed: no two restaurant hashes hold the same name and location,
\* and a request whose name:location had been added by a completed request
\* is answered 409.
C2_NoDuplicateRestaurant ==
  /\ \A r1 \in RestaurantIds, r2 \in RestaurantIds :
       (/\ Exists(hashes[r1]) /\ Exists(hashes[r2])
        /\ hashes[r1]["name"] = hashes[r2]["name"]
        /\ hashes[r1]["location"] = hashes[r2]["location"]) => r1 = r2
  /\ (response.route = "create" /\ response.req.added) => response.status = 409

\* C4 as claimed: with one request at a time, after each completed request a
\* restaurant with a non-empty review list has avgStars equal to the mean of
\* the ratings of the reviews in the list, to one decimal.  Stated for the
\* lists whose reviews all have a stored rating.
C4_AverageOfListedReviews ==
  Idle =>
    \A r \in RestaurantIds :
      (Reviewed(r) /\ AllDetailed(reviews[r])) =>
        /\ "avgStars" \in DOMAIN hashes[r]
        /\ hashes[r]["avgStars"] = MeanRating(reviews[r])

\* C5: once all concurrent review submissions have completed, avgStars and
\* the ranking score of every reviewed restaurant equal the mean of the
\* submitted ratings, to one decimal.
C5_AverageOfSubmittedRatings ==
  reviewReqs = {} =>
    \A r \in RestaurantIds :
      Reviewed(r) =>
        /\ hashes[r]["avgStars"] = MeanRating(reviews[r])
        /\ byRating[r] = MeanRating(reviews[r])

\* Two requests with different ratings for one restaurant have overlapped,
\* the second running its first batch before the first wrote its average,
\* and both have completed: the average is the mean of the two ratings and
\* not the rating of either.
C5_Witness ==
  /\ reviewReqs = {}
  /\ \E r \in RestaurantIds :
       /\ reviewsOverlapped[r]
       /\ Len(reviews[r]) = 2
       /\ reviewDetails[reviews[r][1]]["rating"] # reviewDetails[reviews[r][2]]["rating"]
       /\ hashes[r]["avgStars"] = MeanRating(reviews[r])
       /\ hashes[r]["avgStars"] # 10 * reviewDetails[reviews[r][1]]["rating"]
       /\ hashes[r]["avgStars"] # 10 * reviewDetails[reviews[r][2]]["rating"]

\* C6 as claimed: after completed add-review and delete-review requests,
\* every listed review id has stored details, and every stored details hash
\* has its id in the list of its restaurantId.
C6_ListsAndDetailsAgree ==
  Idle =>
    /\ \A r \in RestaurantIds : \A i \in 1..Len(reviews[r]) :
         Exists(reviewDetails[reviews[r][i]])
    /\ \A v \in ReviewIds :
         Exists(reviewDetails[v]) =>
           \E i \in 1..Len(reviews[reviewDetails[v]["restaurantId"]]) :
             reviews[reviewDetails[v]["restaurantId"]][i] = v

\* C7: a restaurant is in the set of a cuisine exactly when the cuisine is in
\* the set of the restaurant, every such cuisine is in the global set, every
\* id of a cuisine set has a hash with a name, and GET /cuisines/:cuisine
\* answers a name for every id.
C7_CuisineStructuresAgree ==
  /\ \A r \in RestaurantIds, c \in Cuisines :
       r \in cuisineMembers[c] <=> c \in restaurantCuisines[r]
  /\ \A r \in RestaurantIds : restaurantCuisines[r] \subseteq cuisines
  /\ \A c \in Cuisines : \A r \in cuisineMembers[c] : HGet(hashes[r], "name") # Nil
  /\ response.route = "cuisine" =>
       \A id \in DOMAIN response.body : response.body[id] # Nil

\* Two restaurants share a cuisine, one of them has a second one, and the
\* names of the shared cuisine have been read.
C7_Witness ==
  /\ createReqs = {}
  /\ cuisineMembers["thai"] = {1, 2}
  /\ restaurantCuisines[2] = {"thai", "pho"}
  /\ cuisines = {"thai", "pho"}
  /\ response.route = "cuisine"
  /\ DOMAIN response.body = {1, 2}

Range(seq) == {seq[i] : i \in 1..Len(seq)}

\* C8 as claimed: GET / with page p and limit n answers at most n
\* restaurants, in non-increasing order of score, and shares no restaurant
\* with page p + 1.
C8_PagesOfAtMostLimit ==
  response.route = "restaurants" =>
    /\ Len(response.ids) <= response.limit
    /\ \A i \in 1..Len(response.ids), j \in 1..Len(response.ids) :
         i < j => response.ranking[response.ids[i]] >= response.ranking[response.ids[j]]
    /\ Range(response.ids)
         \cap Range(RestaurantPage(response.ranking, response.page + 1, response.limit)) = {}

\* One step of the weather route, as the claim has it.
WeatherStep ==
  \* a cache write stores the body of a 200 reply to a call for that restaurant
  /\ \A r \in RestaurantIds :
       (weather'[r] # weather[r] /\ weather'[r] # Nil) =>
         \E req \in weatherReqs :
           /\ req.pc = "set" /\ req.restaurantId = r /\ req.status = 200
           /\ weather'[r] = JsonStringify(req.json)
           /\ req.json.lon = Part(Split(hashes[r]["location"], ","), 1)
           /\ req.json.lat = Part(Split(hashes[r]["location"], ","), 2)
  \* a reply other than 200 is answered 500 and writes nothing
  /\ (apiCalls' # apiCalls /\ lastApi'.status # 200) =>
       /\ response'.route = "weather" /\ response'.status = 500
       /\ response'.restaurantId = lastApi'.restaurantId
       /\ weather' = weather
  \* a request that finds an entry is answered with it and ends there
  /\ weatherIssued' # weatherIssued =>
       /\ \A req \in weatherReqs' \ weatherReqs : weather[req.restaurantId] = Nil
       /\ weatherReqs' = weatherReqs =>
            /\ response'.route = "weather" /\ response'.status = 200
            /\ weather[response'.restaurantId] # Nil
            /\ response'.body = JsonParse(weather[response'.restaurantId])
       /\ apiCalls' = apiCalls /\ weather' = weather /\ storeVars' = storeVars
  \* only a request that found no entry calls the API
  /\ apiCalls' # apiCalls =>
       \E req \in weatherReqs : req.pc = "fetch" /\ req \notin weatherReqs'

\* C9: the cache is written only with the body of a 200 reply of the weather
\* API for that restaurant; any other reply is answered 500 and leaves the
\* cache as it was; a request arriving while an entry is cached is answered
\* with the cached body, calls no API and writes nothing.
C9_WeatherCache == [][WeatherStep]_vars

\* An entry has been cached by one request and answered from the cache to the
\* next, with the one call of the first.
C9_Witness ==
  /\ response.route = "weather" /\ response.cached
  /\ weather[response.restaurantId] # Nil
  /\ response.body = JsonParse(weather[response.restaurantId])
  /\ apiCalls = 1
  /\ lastApi.status = 200
  /\ weatherIssued = 2

ViewCount(r) == IF "viewCount" \in DOMAIN hashes[r] THEN hashes[r]["viewCount"] ELSE 0

ViewsInProgress(r) == {req \in viewReqs : req.restaurantId = r}

ViewCountsHold ==
  /\ \A r \in RestaurantIds :
       /\ viewCompleted[r] <= ViewCount(r)
       /\ ViewCount(r) <= viewStarted[r]
       /\ ViewsInProgress(r) = {} => ViewCount(r) = viewCompleted[r]
  /\ response.route = "restaurant" =>
       /\ response.body["viewCount"] >= 1
       /\ response.body["viewCount"] <= viewStarted[response.restaurantId]

\* A step of a GET /:restaurantId request writes nothing but the viewCount
\* field of the hash of its restaurant.
ViewStep ==
  viewReqs' # viewReqs =>
    /\ <<reviews, reviewDetails, cuisines, cuisineMembers, restaurantCuisines, byRating,
         bloom, weather>>' =
       <<reviews, reviewDetails, cuisines, cuisineMembers, restaurantCuisines, byRating,
         bloom, weather>>
    /\ \A r \in RestaurantIds :
         \/ hashes'[r] = hashes[r]
         \/ /\ \E req \in viewReqs : req.pc = "batch" /\ req.restaurantId = r
            /\ DOMAIN hashes'[r] = DOMAIN hashes[r] \cup {"viewCount"}
            /\ \A f \in DOMAIN hashes[r] : f # "viewCount" => hashes'[r][f] = hashes[r][f]

\* C10: the viewCount field of a restaurant lies between the requests answered
\* and the requests arrived, and equals the requests answered once none is in
\* progress; each response carries a viewCount of at least 1 and at most the
\* requests arrived; the request writes nothing else.
C10_ViewCount == []ViewCountsHold /\ [][ViewStep]_vars

\* Two requests for one restaurant overlapped and both have been answered,
\* the last answer carrying the count of both.
C10_Witness ==
  /\ viewReqs = {}
  /\ \E r \in RestaurantIds :
       /\ viewsOverlapped[r]
       /\ viewCompleted[r] = 2 /\ ViewCount(r) = 2
       /\ response.route = "restaurant" /\ response.restaurantId = r
       /\ response.body["viewCount"] = 2
====
